---------------------------- MODULE Spec2Model ----------------------------
(***************************************************************************)
(* A model of the order-matching engine: the Ledger (bank/account.rs), the *)
(* Intent (book/order.rs), the PriceLevel (book/tick.rs) and the Book      *)
(* (book/orderbook.rs).  Accounts are shared handles (Rc<RefCell<Account>>)*)
(* and are modelled as one ledger indexed by account handle.  All integers *)
(* of the program are u64; the model keeps the width, scaled down to       *)
(* 0 .. U64_MAX, and records every overflow of +, - and *.  A build with   *)
(* overflow checks panics at the first overflow, a build without wraps.    *)
(***************************************************************************)
EXTENDS Integers, Sequences, FiniteSets, TLC

\* ------------------------------------------------------------------ bounds
NumAccounts == 2
MaxTick == 2
MaxQty == 2
MaxCalls == 3
MaxAmount == 2

\* ------------------------------------------------- program constants (scaled)
U64_MIN == 0
U64_MAX == 31
U64_HALF == 16
InitialUSD == 3
InitialOSMO == 2

Modulus == U64_MAX + 1

Accounts == 1 .. NumAccounts
Currency == {"USD", "OSMO"}
OrderType == {"Market", "Limit"}
OrderDirection == {"Bid", "Ask"}

\* Prices a caller submits: the low end of the grid, both extreme values and
\* the least price whose product with a quantity of 2 exceeds the width.
TickInputs == (U64_MIN .. MaxTick) \cup {U64_HALF, U64_MAX}
QuantityInputs == 1 .. MaxQty
\* Amounts the command layer moves with one ledger call.
LedgerAmounts == 1 .. MaxAmount

NoError == "Ok"
InsufficientFunds == "Insufficient funds"
InvalidOrderType == "Order is not a limit order"

VARIABLES
    ticks,            \* Orderbook.ticks: tick_id -> [orders, total_orders]
    next_bid_tick,    \* Orderbook.next_bid_tick
    next_ask_tick,    \* Orderbook.next_ask_tick
    balances,         \* Account.balances of every account handle
    overflow_checks,  \* whether the build panics on integer overflow
    panicked,         \* the process has aborted in a panic
    wrapped,          \* an amount or a balance has wrapped around in some call
    deposited,        \* per currency: deposits minus successful withdrawals by callers
    calls,            \* number of operations performed so far
    last,             \* the last operation: its input, result and fill log
    unit              \* the Account history or the Order that a specification of
                      \* one type exercises on its own; <<>> in Spec

vars == <<ticks, next_bid_tick, next_ask_tick, balances, overflow_checks,
          panicked, wrapped, deposited, calls, last, unit>>

book == <<ticks, next_bid_tick, next_ask_tick>>

\* ------------------------------------------------------------ u64 arithmetic
WrapAdd(x, y) == (x + y) % Modulus
WrapSub(x, y) == (x - y + Modulus) % Modulus
WrapMul(x, y) == (x * y) % Modulus
AddOverflows(x, y) == x + y > U64_MAX
SubOverflows(x, y) == y > x
MulOverflows(x, y) == x * y > U64_MAX

\* ------------------------------------------------------------------- Ledger
\* The machine state `m` threaded through a handler is a record:
\*   ticks, next_bid_tick, next_ask_tick  the book
\*   bal                                  the ledger
\*   ovf                                  some arithmetic step has overflowed
\*   money_ovf                            an amount or a balance has overflowed
\*   err                                  the error returned so far (NoError if none)
\*   quantity                             the caller's order.quantity
\*   remaining, to_remove                 locals of the running sweep
\*   fills, legs                          log of passive fills and aggressor legs

balance(bal, a, c) == bal[a][c]

deposit(m, a, c, amount) ==
    [m EXCEPT !.bal[a][c] = WrapAdd(@, amount),
              !.ovf = @ \/ AddOverflows(m.bal[a][c], amount),
              !.money_ovf = @ \/ AddOverflows(m.bal[a][c], amount)]

\* A withdrawal that also refuses to take the whole balance.
InsufficientForOrEqual(bal, amount) == bal <= amount

\* A withdrawal that never refuses.
NeverInsufficient(bal, amount) == FALSE

InsufficientFor(bal, amount) == bal < amount

withdraw(m, a, c, amount) ==
    IF InsufficientFor(m.bal[a][c], amount)
    THEN [m EXCEPT !.err = InsufficientFunds]
    ELSE [m EXCEPT !.bal[a][c] = @ - amount]

\* ------------------------------------------------------------------- Intent
Order(id, tick_id, owner, type, direction, quantity) ==
    [order_id |-> id, tick_id |-> tick_id, owner |-> owner,
     order_type |-> type, order_direction |-> direction, quantity |-> quantity]

\* amount_filled * price_per_filled_unit, in u64.
Product(m, amount_filled, price_per_filled_unit) ==
    [m EXCEPT !.ovf = @ \/ MulOverflows(amount_filled, price_per_filled_unit),
              !.money_ovf = @ \/ MulOverflows(amount_filled, price_per_filled_unit)]

distribute_filled_assets(m, o, amount_filled, price_per_filled_unit) ==
    IF o.order_direction = "Bid"
    THEN deposit(m, o.owner, "OSMO", amount_filled)
    ELSE deposit(Product(m, amount_filled, price_per_filled_unit),
                 o.owner, "USD", WrapMul(amount_filled, price_per_filled_unit))

withdraw_deposited_assets(m, o, amount_filled, price_per_filled_unit) ==
    IF o.order_direction = "Bid"
    THEN withdraw(Product(m, amount_filled, price_per_filled_unit),
                  o.owner, "USD", WrapMul(amount_filled, price_per_filled_unit))
    ELSE withdraw(m, o.owner, "OSMO", amount_filled)

\* A fill that reports everything as taken.
FillRemainderNone(quantity, fill_quantity) == 0

\* fill_order: the remainder of fill_quantity the order could not take.
FillRemainder(quantity, fill_quantity) ==
    IF quantity > fill_quantity THEN 0 ELSE fill_quantity - quantity

\* fill_order on the resting order o: <<order after, remainder, machine state>>.
\* The fill is logged before the owner is credited.
LogFill(m, o, amount_filled) ==
    [m EXCEPT !.fills = Append(@,
        [tick |-> o.tick_id, order_id |-> o.order_id, owner |-> o.owner,
         direction |-> o.order_direction, amount |-> amount_filled])]

QuantityAfterFill(quantity, fill_quantity) ==
    IF quantity > fill_quantity THEN quantity - fill_quantity ELSE 0

fill_order(m, o, fill_quantity) ==
    <<[o EXCEPT !.quantity = QuantityAfterFill(o.quantity, fill_quantity)],
      FillRemainder(o.quantity, fill_quantity),
      distribute_filled_assets(
          LogFill(m, o, fill_quantity - FillRemainder(o.quantity, fill_quantity)),
          o, fill_quantity - FillRemainder(o.quantity, fill_quantity), o.tick_id)>>

\* --------------------------------------------------------------- PriceLevel
NewTick(tick_id) == [tick_id |-> tick_id, orders |-> <<>>, total_orders |-> 0]

RECURSIVE fill_tick(_, _, _)
RECURSIVE PopIfFilled(_, _)

\* fill_tick on queue `orders`: [orders, remaining, m] once the loop has ended.
fill_tick(m, orders, quantity) ==
    IF quantity > 0 /\ Len(orders) > 0
    THEN PopIfFilled(fill_order(m, Head(orders), quantity), Tail(orders))
    ELSE [orders |-> orders, remaining |-> quantity, m |-> m]

\* An iteration that pops the head order whether or not it was filled.
PopAlways(r, rest) == fill_tick(r[3], rest, r[2])

\* The rest of one iteration: r is fill_order's result on the head order.
PopIfFilled(r, rest) ==
    fill_tick(r[3], IF r[1].quantity = 0 THEN rest ELSE <<r[1]>> \o rest, r[2])

\* A guard that lets every order type through.
AnyOrderType(o) == TRUE

IsLimit(o) == o.order_type = "Limit"

\* A placement that puts the order in front of the queue.
place_limit_at_head(orders, o) ==
    IF o.order_type # "Limit"
    THEN [orders |-> orders, err |-> InvalidOrderType]
    ELSE [orders |-> <<o>> \o orders, err |-> NoError]

\* place_limit on queue `orders`: [orders, err].
place_limit(orders, o) ==
    IF ~IsLimit(o)
    THEN [orders |-> orders, err |-> InvalidOrderType]
    ELSE [orders |-> Append(orders, o), err |-> NoError]

\* --------------------------------------------------------------------- Book
RECURSIVE HighestFirst(_)
\* An iteration that yields the keys of S from the highest down.
HighestFirst(S) ==
    IF S = {} THEN <<>>
    ELSE LET x == CHOOSE x \in S : \A y \in S : x >= y
         IN  <<x>> \o HighestFirst(S \ {x})

RECURSIVE Ascending(_)
\* BTreeMap iteration order over the key set S.
Ascending(S) ==
    IF S = {} THEN <<>>
    ELSE LET x == CHOOSE x \in S : \A y \in S : x <= y
         IN  <<x>> \o Ascending(S \ {x})

RECURSIVE Descending(_)
Descending(S) ==
    IF S = {} THEN <<>>
    ELSE LET x == CHOOSE x \in S : \A y \in S : x >= y
         IN  <<x>> \o Descending(S \ {x})

Range(s) == {s[i] : i \in DOMAIN s}

get_or_init_tick_in_tree(tks, tick_id) ==
    IF tick_id \in DOMAIN tks THEN tks
    ELSE [t \in DOMAIN tks \cup {tick_id} |->
             IF t = tick_id THEN NewTick(tick_id) ELSE tks[t]]

\* self.ticks.remove for every tick of to_remove, after the walk.
RemoveEmptyTicks(tks, to_remove) ==
    [t \in DOMAIN tks \ Range(to_remove) |-> tks[t]]

\* A cursor update that takes every placed price as an improvement.
AlwaysImproves(tick_id, cursor) == TRUE

ImprovesBid(tick_id, cursor) == tick_id > cursor
ImprovesAsk(tick_id, cursor) == tick_id < cursor

\* A cursor update that moves both cursors to the placed price.
UpdateBothCursors(m, order) ==
    IF m.err # NoError THEN m
    ELSE [m EXCEPT !.next_bid_tick = order.tick_id, !.next_ask_tick = order.tick_id]

\* run_place_limit, last step: the cursor of the order's side.
UpdateCursor(m, order) ==
    IF m.err # NoError THEN m
    ELSE IF order.order_direction = "Bid"
         THEN IF ImprovesBid(order.tick_id, m.next_bid_tick)
              THEN [m EXCEPT !.next_bid_tick = order.tick_id] ELSE m
         ELSE IF ImprovesAsk(order.tick_id, m.next_ask_tick)
              THEN [m EXCEPT !.next_ask_tick = order.tick_id] ELSE m

\* run_place_limit, tick.place_limit(order_clone)?: p is place_limit's result.
QueueOnTick(m, p, order) ==
    IF p.err # NoError THEN [m EXCEPT !.err = p.err]
    ELSE [m EXCEPT !.ticks[order.tick_id].orders = p.orders, !.placed = TRUE]

\* run_place_limit after order.withdraw_deposited_assets(..)?
PlaceAfterWithdraw(m, order) ==
    IF m.err # NoError THEN m
    ELSE UpdateCursor(
             QueueOnTick(m, place_limit(m.ticks[order.tick_id].orders, order), order),
             order)

run_place_limit(m, order) ==
    PlaceAfterWithdraw(
        withdraw_deposited_assets(
            [m EXCEPT !.ticks = get_or_init_tick_in_tree(m.ticks, order.tick_id)],
            order, order.quantity, order.tick_id),
        order)

\* One sweep iteration once the cursor has moved to tick_id, in the order of
\* the source: drain the level (fill_tick), decrement its counter, withdraw
\* from the aggressor (an error returns at once), credit the aggressor, and
\* mark the level for removal if its queue is empty.
MarkIfEmpty(m, tick_id) ==
    IF Len(m.ticks[tick_id].orders) = 0
    THEN [m EXCEPT !.ticks[tick_id].total_orders = 0,
                   !.to_remove = Append(@, tick_id)]
    ELSE m

Leg(tick_id, filled_quantity, paid) ==
    [tick |-> tick_id, filled |-> filled_quantity, paid |-> paid]

CreditAggressor(m, order, filled_quantity, tick_id) ==
    IF m.err # NoError
    THEN [m EXCEPT !.legs = Append(@, Leg(tick_id, filled_quantity, FALSE))]
    ELSE MarkIfEmpty(
             distribute_filled_assets(
                 [m EXCEPT !.legs = Append(@, Leg(tick_id, filled_quantity, TRUE))],
                 order, filled_quantity, tick_id),
             tick_id)

\* The aggressor settled at its own limit price instead of the level's.
SettleLevelAtOwnPrice(m, order, filled_quantity, tick_id) ==
    LET w == withdraw_deposited_assets(m, order, filled_quantity, order.tick_id)
    IN  IF w.err # NoError
        THEN [w EXCEPT !.legs = Append(@, Leg(tick_id, filled_quantity, FALSE))]
        ELSE MarkIfEmpty(
                 distribute_filled_assets(
                     [w EXCEPT !.legs = Append(@, Leg(tick_id, filled_quantity, TRUE))],
                     order, filled_quantity, order.tick_id),
                 tick_id)

SettleLevel(m, order, filled_quantity, tick_id) ==
    CreditAggressor(withdraw_deposited_assets(m, order, filled_quantity, tick_id),
                    order, filled_quantity, tick_id)

\* f is fill_tick's result on the level `tick`.
AfterFill(tick, pre_fill_remaining, f, order) ==
    SettleLevel(
        [f.m EXCEPT !.remaining = f.remaining,
                    !.ticks[tick.tick_id].orders = f.orders,
                    !.ticks[tick.tick_id].total_orders =
                        WrapSub(@, pre_fill_remaining - f.remaining),
                    !.ovf = @ \/ SubOverflows(tick.total_orders,
                                              pre_fill_remaining - f.remaining)],
        order, pre_fill_remaining - f.remaining, tick.tick_id)

sweep_level(m, order, tick_id) ==
    AfterFill(m.ticks[tick_id], m.remaining,
              fill_tick(m, m.ticks[tick_id].orders, m.remaining), order)

\* A bid walk that no bound stops.
BidWalkNeverStops(tick_id, end_tick) == FALSE

\* A bid walk whose bound is inclusive: it also sweeps the level at end_tick.
BidWalkStopsPastBound(tick_id, end_tick) == tick_id > end_tick

\* `*tick_id >= end_tick` of run_market_bid, `*tick_id <= end_tick` of run_market_ask.
BidWalkStops(tick_id, end_tick) == tick_id >= end_tick
AskWalkStops(tick_id, end_tick) == tick_id <= end_tick

\* After the walk: the levels of to_remove leave the index, unless the walk
\* returned an error.
FinishSweep(w) ==
    IF w.err # NoError THEN w
    ELSE [w EXCEPT !.ticks = RemoveEmptyTicks(w.ticks, w.to_remove)]

RECURSIVE market_bid_walk(_, _, _, _)
RECURSIVE ContinueBidWalk(_, _, _, _)

\* The while loop of run_market_bid over the levels `keys` of range_mut(next_ask_tick..).
market_bid_walk(m, order, end_tick, keys) ==
    IF ~(m.remaining > 0 /\ m.next_ask_tick # U64_MAX) THEN m
    ELSE IF keys = <<>> THEN m
    ELSE IF BidWalkStops(Head(keys), end_tick)
         THEN [m EXCEPT !.next_ask_tick = end_tick]
         ELSE ContinueBidWalk(
                  sweep_level([m EXCEPT !.next_ask_tick = Head(keys)], order, Head(keys)),
                  order, end_tick, Tail(keys))

ContinueBidWalk(s, order, end_tick, keys) ==
    IF s.err # NoError THEN s ELSE market_bid_walk(s, order, end_tick, keys)

run_market_bid(m, order, end_tick, quantity) ==
    FinishSweep(
        market_bid_walk([m EXCEPT !.remaining = quantity, !.swept = TRUE], order, end_tick,
                        Ascending({t \in DOMAIN m.ticks : t >= m.next_ask_tick})))

RECURSIVE market_ask_walk(_, _, _, _)
RECURSIVE ContinueAskWalk(_, _, _, _)

\* The while loop of run_market_ask over the levels `keys` of range_mut(..=next_bid_tick).
market_ask_walk(m, order, end_tick, keys) ==
    IF ~(m.remaining > 0 /\ m.next_bid_tick # U64_MIN) THEN m
    ELSE IF keys = <<>> THEN m
    ELSE IF AskWalkStops(Head(keys), end_tick)
         THEN [m EXCEPT !.next_bid_tick = end_tick]
         ELSE ContinueAskWalk(
                  sweep_level([m EXCEPT !.next_bid_tick = Head(keys)], order, Head(keys)),
                  order, end_tick, Tail(keys))

ContinueAskWalk(s, order, end_tick, keys) ==
    IF s.err # NoError THEN s ELSE market_ask_walk(s, order, end_tick, keys)

run_market_ask(m, order, end_tick, quantity) ==
    FinishSweep(
        market_ask_walk([m EXCEPT !.remaining = quantity, !.swept = TRUE], order, end_tick,
                        Descending({t \in DOMAIN m.ticks : t <= m.next_bid_tick})))

BidCrosses(tick_id, cursor) == tick_id > cursor
AskCrosses(tick_id, cursor) == tick_id < cursor

\* A remainder step that queues the order whatever is left of it.
RestAlways(s, order) ==
    IF s.err # NoError THEN s
    ELSE run_place_limit([s EXCEPT !.quantity = s.remaining],
                         [order EXCEPT !.quantity = s.remaining])

\* if remaining_quantity > 0 { order.set_quantity(remaining_quantity); run_place_limit(order)? }
RestRemainder(s, order) ==
    IF s.err # NoError THEN s
    ELSE IF s.remaining > 0
         THEN run_place_limit([s EXCEPT !.quantity = s.remaining],
                              [order EXCEPT !.quantity = s.remaining])
         ELSE s

\* The sweep of a limit order that crosses, bounded by the order's own price.
CrossSpread(m, order) ==
    IF order.order_direction = "Bid"
    THEN IF BidCrosses(order.tick_id, m.next_ask_tick)
         THEN run_market_bid(m, order, order.tick_id, order.quantity)
         ELSE [m EXCEPT !.remaining = order.quantity]
    ELSE IF AskCrosses(order.tick_id, m.next_bid_tick)
         THEN run_market_ask(m, order, order.tick_id, order.quantity)
         ELSE [m EXCEPT !.remaining = order.quantity]

run_partial_or_full_limit(m, order) == RestRemainder(CrossSpread(m, order), order)

\* A market order handled as a limit order at its own tick: its remainder
\* goes on to placement.
run_market_order_as_limit(m, order) == run_partial_or_full_limit(m, order)

run_market_order(m, order) ==
    IF order.order_direction = "Bid"
    THEN run_market_bid(m, order, U64_MAX, order.quantity)
    ELSE run_market_ask(m, order, U64_MIN, order.quantity)

handle_order(m, order) ==
    IF order.order_type = "Market"
    THEN run_market_order(m, order)
    ELSE run_partial_or_full_limit(m, order)

\* ------------------------------------------------------------ state machine
MachineState(order) ==
    [ticks |-> ticks, next_bid_tick |-> next_bid_tick, next_ask_tick |-> next_ask_tick,
     bal |-> balances, ovf |-> FALSE, money_ovf |-> FALSE, err |-> NoError, quantity |-> order.quantity,
     remaining |-> 0, to_remove |-> <<>>, fills |-> <<>>, legs |-> <<>>,
     placed |-> FALSE, swept |-> FALSE]

NoOrder == Order(0, 0, 0, "Limit", "Bid", 0)

\* What the last operation was given, what it returned and the state it started from.
Report(op, order, m, result) ==
    [op |-> op, order |-> order, result |-> result, quantity |-> m.quantity,
     remaining |-> m.remaining, fills |-> m.fills, legs |-> m.legs,
     placed |-> m.placed, swept |-> m.swept,
     pre |-> [ticks |-> ticks, next_bid_tick |-> next_bid_tick,
              next_ask_tick |-> next_ask_tick, bal |-> balances]]

\* Orderbook::new, every account funded as main.rs funds the user account.
Init ==
    /\ ticks = <<>>
    /\ next_bid_tick = U64_MIN
    /\ next_ask_tick = U64_MAX
    /\ balances = [a \in Accounts |-> [c \in Currency |->
                       IF c = "USD" THEN InitialUSD ELSE InitialOSMO]]
    /\ overflow_checks \in BOOLEAN
    /\ panicked = FALSE
    /\ wrapped = FALSE
    /\ deposited = [c \in Currency |->
                       NumAccounts * (IF c = "USD" THEN InitialUSD ELSE InitialOSMO)]
    /\ calls = 0
    /\ last = Report("new", NoOrder, MachineState(NoOrder), NoError)
    /\ unit = <<>>

\* The quantity token of a command parses as any u64, zero included.
OrderQuantities == 0 .. MaxQty

\* Market orders carry tick_id = 0 (handler.rs).
OrderInputs ==
    {Order(calls + 1, t, a, "Limit", d, q) :
        t \in TickInputs, a \in Accounts, d \in OrderDirection, q \in OrderQuantities}
    \cup {Order(calls + 1, 0, a, "Market", d, q) :
        a \in Accounts, d \in OrderDirection, q \in OrderQuantities}

\* The process aborts in a panic: nothing of its state is left to observe.
Panics(op, order) ==
    /\ panicked' = TRUE
    /\ last' = Report(op, order, MachineState(order), "panic")
    /\ UNCHANGED <<book, balances, deposited, wrapped>>

\* handle_order returns with machine state m.
OrderReturns(order, m) ==
    IF overflow_checks /\ m.ovf
    THEN Panics("handle_order", order)
    ELSE /\ ticks' = m.ticks
         /\ next_bid_tick' = m.next_bid_tick
         /\ next_ask_tick' = m.next_ask_tick
         /\ balances' = m.bal
         /\ last' = Report("handle_order", order, m, m.err)
         /\ wrapped' = (wrapped \/ m.money_ovf)
         /\ UNCHANGED <<panicked, deposited>>

\* One call of Orderbook::handle_order.  In a build with overflow checks the
\* first overflowing operation panics.
HandleOrder ==
    /\ ~panicked
    /\ calls < MaxCalls
    /\ \E order \in OrderInputs :
          OrderReturns(order, handle_order(MachineState(order), order))
    /\ calls' = calls + 1
    /\ UNCHANGED <<overflow_checks, unit>>

\* A ledger call of the command layer, reported as an order of the moved amount.
LedgerCall(a, amount) == Order(calls + 1, 0, a, "Limit", "Bid", amount)

DepositReturns(a, c, amount, m) ==
    IF overflow_checks /\ m.ovf
    THEN Panics("deposit", LedgerCall(a, amount))
    ELSE /\ balances' = m.bal
         /\ deposited' = [deposited EXCEPT ![c] = @ + amount]
         /\ last' = Report("deposit", LedgerCall(a, amount), m, NoError)
         /\ wrapped' = (wrapped \/ m.money_ovf)
         /\ UNCHANGED <<book, panicked>>

\* Account::deposit called by the command layer.
Deposit ==
    /\ ~panicked
    /\ calls < MaxCalls
    /\ \E a \in Accounts, c \in Currency, amount \in LedgerAmounts :
          DepositReturns(a, c, amount, deposit(MachineState(LedgerCall(a, amount)), a, c, amount))
    /\ calls' = calls + 1
    /\ UNCHANGED <<overflow_checks, unit>>

WithdrawReturns(a, c, amount, m) ==
    /\ balances' = m.bal
    /\ deposited' = IF m.err = NoError
                    THEN [deposited EXCEPT ![c] = @ - amount] ELSE deposited
    /\ last' = Report("withdraw", LedgerCall(a, amount), m, m.err)
    /\ UNCHANGED <<book, panicked, wrapped>>

\* Account::withdraw called by the command layer.
Withdraw ==
    /\ ~panicked
    /\ calls < MaxCalls
    /\ \E a \in Accounts, c \in Currency, amount \in LedgerAmounts :
          WithdrawReturns(a, c, amount, withdraw(MachineState(LedgerCall(a, amount)), a, c, amount))
    /\ calls' = calls + 1
    /\ UNCHANGED <<overflow_checks, unit>>

Next == HandleOrder \/ Deposit \/ Withdraw

Spec == Init /\ [][Next]_vars

\* ------------------------------------------------- one Account on its own
\* Amounts of the calls on an Account: nothing, the small amounts, and the
\* two that overflow a balance when added to another.
AccountAmounts == (0 .. MaxAmount) \cup {U64_HALF, U64_MAX}

NoHistory == [a \in Accounts |-> [c \in Currency |-> 0]]

AccountReport(op, a, c, amount, m, result) ==
    [currency |-> c] @@ Report(op, LedgerCall(a, amount), m, result)

\* Account::new for every account: no balance entry, balance() = 0.
AccountInit ==
    /\ ticks = <<>>
    /\ next_bid_tick = U64_MIN
    /\ next_ask_tick = U64_MAX
    /\ balances = [a \in Accounts |-> [c \in Currency |-> 0]]
    /\ overflow_checks \in BOOLEAN
    /\ panicked = FALSE
    /\ wrapped = FALSE
    /\ deposited = [c \in Currency |-> 0]
    /\ calls = 0
    /\ last = AccountReport("new", 0, "USD", 0, MachineState(NoOrder), NoError)
    /\ unit = [deposits |-> NoHistory, withdrawals |-> NoHistory]

AccountDepositReturns(a, c, amount, m) ==
    IF overflow_checks /\ m.ovf
    THEN /\ panicked' = TRUE
         /\ last' = AccountReport("deposit", a, c, amount, m, "panic")
         /\ UNCHANGED <<balances, wrapped, unit>>
    ELSE /\ balances' = m.bal
         /\ unit' = [unit EXCEPT !.deposits[a][c] = @ + amount]
         /\ last' = AccountReport("deposit", a, c, amount, m, NoError)
         /\ wrapped' = (wrapped \/ m.money_ovf)
         /\ UNCHANGED panicked

AccountDeposit ==
    /\ ~panicked
    /\ calls < MaxCalls
    /\ \E a \in Accounts, c \in Currency, amount \in AccountAmounts :
          AccountDepositReturns(a, c, amount,
              deposit(MachineState(LedgerCall(a, amount)), a, c, amount))
    /\ calls' = calls + 1
    /\ UNCHANGED <<book, overflow_checks, deposited>>

AccountWithdrawReturns(a, c, amount, m) ==
    /\ balances' = m.bal
    /\ unit' = IF m.err = NoError
               THEN [unit EXCEPT !.withdrawals[a][c] = @ + amount] ELSE unit
    /\ last' = AccountReport("withdraw", a, c, amount, m, m.err)
    /\ UNCHANGED <<panicked, wrapped>>

AccountWithdraw ==
    /\ ~panicked
    /\ calls < MaxCalls
    /\ \E a \in Accounts, c \in Currency, amount \in AccountAmounts :
          AccountWithdrawReturns(a, c, amount,
              withdraw(MachineState(LedgerCall(a, amount)), a, c, amount))
    /\ calls' = calls + 1
    /\ UNCHANGED <<book, overflow_checks, deposited>>

AccountNext == AccountDeposit \/ AccountWithdraw

AccountSpec == AccountInit /\ [][AccountNext]_vars

\* --------------------------------------------------- one Order on its own
\* The orders fill_order is called on: either direction, any price of the
\* grid, any owner, a quantity from 0 (an exhausted order) to MaxQty.
OrderSubjects ==
    {Order(0, t, a, "Limit", d, q) :
        t \in TickInputs, a \in Accounts, d \in OrderDirection, q \in 0 .. MaxQty}

\* fill_quantity of a call: nothing, up to more than any order holds.
FillInputs == 0 .. (MaxQty + 1)

\* Order::new with an owner created by Account::new.
OrderInit ==
    /\ ticks = <<>>
    /\ next_bid_tick = U64_MIN
    /\ next_ask_tick = U64_MAX
    /\ balances = [a \in Accounts |-> [c \in Currency |-> 0]]
    /\ overflow_checks \in BOOLEAN
    /\ panicked = FALSE
    /\ wrapped = FALSE
    /\ deposited = [c \in Currency |-> 0]
    /\ calls = 0
    /\ last = Report("new", NoOrder, MachineState(NoOrder), NoError)
    /\ \E o \in OrderSubjects : unit = [order |-> o, initial |-> o.quantity]

\* The machine state of a fill_order(fill_quantity) call on order o.
OrderCall(o, fill_quantity) == [MachineState(o) EXCEPT !.quantity = fill_quantity]

\* r is fill_order's result: <<order after, remainder, machine state>>.
FillOrderReturns(o, fill_quantity, r) ==
    IF overflow_checks /\ r[3].ovf
    THEN /\ panicked' = TRUE
         /\ last' = Report("fill_order", o, OrderCall(o, fill_quantity), "panic")
         /\ UNCHANGED <<balances, wrapped, unit>>
    ELSE /\ unit' = [unit EXCEPT !.order = r[1]]
         /\ balances' = r[3].bal
         /\ last' = Report("fill_order", o, [r[3] EXCEPT !.remaining = r[2]], NoError)
         /\ wrapped' = (wrapped \/ r[3].money_ovf)
         /\ UNCHANGED panicked

FillOrder ==
    /\ ~panicked
    /\ calls < MaxCalls
    /\ \E fill_quantity \in FillInputs :
          FillOrderReturns(unit.order, fill_quantity,
              fill_order(OrderCall(unit.order, fill_quantity), unit.order, fill_quantity))
    /\ calls' = calls + 1
    /\ UNCHANGED <<book, overflow_checks, deposited>>

OrderNext == FillOrder

OrderSpec == OrderInit /\ [][OrderNext]_vars

\* ---------------------------------------------------- one Tick on its own
MaxOrders == 3

\* A queue of n orders of equal quantity, owned in turn by the accounts.
EqualOrders(tick_id, n, direction, quantity) ==
    [i \in 1 .. n |->
        Order(i, tick_id, ((i - 1) % NumAccounts) + 1, "Limit", direction, quantity)]

\* The level under test is the only entry of `ticks`.
TheTick == CHOOSE t \in DOMAIN ticks : TRUE

\* Tick::new followed by the queueing of 0 .. MaxOrders equal orders.
TickInit ==
    /\ \E t \in TickInputs, n \in 0 .. MaxOrders, d \in OrderDirection, q \in QuantityInputs :
          ticks = (t :> [NewTick(t) EXCEPT !.orders = EqualOrders(t, n, d, q)])
    /\ next_bid_tick = U64_MIN
    /\ next_ask_tick = U64_MAX
    /\ balances = [a \in Accounts |-> [c \in Currency |-> 0]]
    /\ overflow_checks \in BOOLEAN
    /\ panicked = FALSE
    /\ wrapped = FALSE
    /\ deposited = [c \in Currency |-> 0]
    /\ calls = 0
    /\ last = Report("new", NoOrder, MachineState(NoOrder), NoError)
    /\ unit = <<>>

\* quantity of a fill_tick call: nothing, up to more than the level can hold.
TickFillInputs == 0 .. (MaxOrders * MaxQty + 1)

\* f is fill_tick's result: [orders, remaining, m].
FillTickReturns(quantity, f) ==
    IF overflow_checks /\ f.m.ovf
    THEN /\ panicked' = TRUE
         /\ last' = Report("fill_tick", NoOrder, OrderCall(NoOrder, quantity), "panic")
         /\ UNCHANGED <<ticks, balances, wrapped>>
    ELSE /\ ticks' = [ticks EXCEPT ![TheTick].orders = f.orders]
         /\ balances' = f.m.bal
         /\ last' = Report("fill_tick", NoOrder, [f.m EXCEPT !.remaining = f.remaining], NoError)
         /\ wrapped' = (wrapped \/ f.m.money_ovf)
         /\ UNCHANGED panicked

FillTick ==
    /\ ~panicked
    /\ calls < MaxCalls
    /\ \E quantity \in TickFillInputs :
          FillTickReturns(quantity,
              fill_tick(OrderCall(NoOrder, quantity), ticks[TheTick].orders, quantity))
    /\ calls' = calls + 1
    /\ UNCHANGED <<next_bid_tick, next_ask_tick, overflow_checks, deposited, unit>>

\* Orders handed to Tick::place_limit, of either type.
TickOrderInputs ==
    {Order(calls + 1 + MaxOrders, TheTick, a, t, d, q) :
        a \in Accounts, t \in OrderType, d \in OrderDirection, q \in QuantityInputs}

\* p is place_limit's result: [orders, err].
PlaceLimitReturns(order, p) ==
    /\ ticks' = [ticks EXCEPT ![TheTick].orders = p.orders]
    /\ last' = Report("place_limit", order, MachineState(order), p.err)
    /\ UNCHANGED <<balances, panicked, wrapped>>

PlaceLimit ==
    /\ ~panicked
    /\ calls < MaxCalls
    /\ \E order \in TickOrderInputs :
          PlaceLimitReturns(order, place_limit(ticks[TheTick].orders, order))
    /\ calls' = calls + 1
    /\ UNCHANGED <<next_bid_tick, next_ask_tick, overflow_checks, deposited, unit>>

TickNext == FillTick \/ PlaceLimit

TickSpec == TickInit /\ [][TickNext]_vars

\* ------------------------------------------------------ one call, stepwise
\* One handle_order call run iteration by iteration: `unit` is the frame of
\* the call (its position pc, the order, the sweep's bound and iterator, the
\* level being drained and fill_tick's locals), the other variables hold
\* the book and the accounts the call started from until it returns.
MaxDepth == 2
MaxLevels == 2

\* The levels of the books a call may find.
LoopLevels == U64_MIN .. MaxTick

\* Quantities of the orders of a queue, front first; Tick::place_limit
\* queues any quantity, zero included.
QueueShapes == UNION {[1 .. n -> 0 .. MaxQty] : n \in 0 .. MaxDepth}

\* A queue of level t with the quantities qs, owned by account 1.
QueueOf(t, direction, qs) ==
    [i \in 1 .. Len(qs) |-> Order(i, t, 1, "Limit", direction, qs[i])]

\* The orders of the calls: owned by account 2, numbered after the resting ones.
LoopOrders ==
    {Order(MaxDepth + 1, t, 2, "Limit", d, q) :
        t \in LoopLevels \cup {U64_MAX}, d \in OrderDirection, q \in OrderQuantities}
    \cup {Order(MaxDepth + 1, 0, 2, "Market", d, q) :
        d \in OrderDirection, q \in OrderQuantities}

Frame(pc, order, m) ==
    [pc |-> pc, order |-> order, m |-> m, end_tick |-> 0, keys |-> <<>>,
     visited |-> <<>>, level |-> 0, pre_fill |-> 0, remaining |-> 0, orders |-> <<>>]

\* Any book over LoopLevels, any value of the cursors, and the order of the call.
LoopInit ==
    /\ \E order \in LoopOrders :
          /\ \E S \in {L \in SUBSET LoopLevels : Cardinality(L) <= MaxLevels} :
             \E shape \in [S -> QueueShapes] :
                ticks = [t \in S |->
                    [NewTick(t) EXCEPT !.orders =
                        QueueOf(t, IF order.order_direction = "Bid" THEN "Ask" ELSE "Bid",
                                shape[t])]]
          /\ IF order.order_direction = "Bid"
             THEN next_bid_tick = U64_MIN /\ next_ask_tick \in LoopLevels \cup {U64_MAX}
             ELSE next_ask_tick = U64_MAX /\ next_bid_tick \in LoopLevels \cup {U64_MAX}
          /\ balances = [a \in Accounts |-> [c \in Currency |->
                             IF c = "USD" THEN InitialUSD ELSE InitialOSMO]]
          /\ unit = Frame("call", order, MachineState(order))
    /\ overflow_checks \in BOOLEAN
    /\ panicked = FALSE
    /\ wrapped = FALSE
    /\ deposited = [c \in Currency |->
                       NumAccounts * (IF c = "USD" THEN InitialUSD ELSE InitialOSMO)]
    /\ calls = 0
    /\ last = Report("new", NoOrder, MachineState(NoOrder), NoError)

\* The frame goes on at pc unless an overflow panics in this build.
GoOn(u, pc) ==
    IF overflow_checks /\ u.m.ovf THEN [u EXCEPT !.pc = "return"] ELSE [u EXCEPT !.pc = pc]

\* The sweep starts: its locals and the iterator over the range of the cursor.
StartSweep(u, end_tick) ==
    [u EXCEPT !.pc = "walk", !.end_tick = end_tick,
              !.m = [@ EXCEPT !.remaining = u.order.quantity, !.swept = TRUE],
              !.keys = IF u.order.order_direction = "Bid"
                       THEN Ascending({t \in DOMAIN u.m.ticks : t >= u.m.next_ask_tick})
                       ELSE Descending({t \in DOMAIN u.m.ticks : t <= u.m.next_bid_tick})]

\* handle_order up to the first loop: the dispatch on type and direction
\* and the crossing test.
EnterCall(u) ==
    IF u.order.order_type = "Market"
    THEN StartSweep(u, IF u.order.order_direction = "Bid" THEN U64_MAX ELSE U64_MIN)
    ELSE IF (IF u.order.order_direction = "Bid"
             THEN BidCrosses(u.order.tick_id, u.m.next_ask_tick)
             ELSE AskCrosses(u.order.tick_id, u.m.next_bid_tick))
         THEN StartSweep(u, u.order.tick_id)
         ELSE [u EXCEPT !.pc = "rest", !.m.remaining = u.order.quantity]

SweptSentinel(u) ==
    IF u.order.order_direction = "Bid" THEN u.m.next_ask_tick = U64_MAX
                                       ELSE u.m.next_bid_tick = U64_MIN

WalkStops(u, tick_id) ==
    IF u.order.order_direction = "Bid" THEN BidWalkStops(tick_id, u.end_tick)
                                       ELSE AskWalkStops(tick_id, u.end_tick)

SetSweptCursor(u, tick_id) ==
    IF u.order.order_direction = "Bid" THEN [u EXCEPT !.m.next_ask_tick = tick_id]
                                       ELSE [u EXCEPT !.m.next_bid_tick = tick_id]

\* The level tick_id is entered: fill_tick is called with the remaining quantity.
EnterLevel(u, tick_id) ==
    [u EXCEPT !.pc = "drain", !.level = tick_id, !.visited = Append(@, tick_id),
              !.keys = Tail(@), !.pre_fill = u.m.remaining, !.remaining = u.m.remaining,
              !.orders = u.m.ticks[tick_id].orders]

\* One test of the sweep loop's condition and the head of its body.
WalkStep(u) ==
    IF ~(u.m.remaining > 0 /\ ~SweptSentinel(u)) THEN [u EXCEPT !.pc = "finish"]
    ELSE IF u.keys = <<>> THEN [u EXCEPT !.pc = "finish"]
    ELSE IF WalkStops(u, Head(u.keys))
         THEN [SetSweptCursor(u, u.end_tick) EXCEPT !.pc = "finish"]
         ELSE EnterLevel(SetSweptCursor(u, Head(u.keys)), Head(u.keys))

\* A drain iteration that leaves the head order in the queue.
KeepFront(o, rest) == <<o>> \o rest

\* if order.quantity() == &0 { self.orders.pop_front(); }
PopFrontIfEmpty(o, rest) == IF o.quantity = 0 THEN rest ELSE <<o>> \o rest

\* One iteration of fill_tick's loop: r is fill_order's result on the front order.
DrainIteration(u, r) ==
    GoOn([u EXCEPT !.orders = PopFrontIfEmpty(r[1], Tail(u.orders)),
                   !.remaining = r[2], !.m = r[3]], "drain")

\* fill_tick returned: the counter, the two settlements and the mark of an
\* emptied level; s is the machine state after them.
LeaveLevel(u, s) ==
    IF s.err # NoError THEN [u EXCEPT !.m = s, !.pc = "return"]
    ELSE GoOn([u EXCEPT !.m = s], "walk")

\* One test of fill_tick's loop condition and what follows it.
DrainStep(u) ==
    IF u.remaining > 0 /\ Len(u.orders) > 0
    THEN DrainIteration(u, fill_order(u.m, Head(u.orders), u.remaining))
    ELSE LeaveLevel(u, AfterFill(u.m.ticks[u.level], u.pre_fill,
                                 [orders |-> u.orders, remaining |-> u.remaining, m |-> u.m],
                                 u.order))

\* After the loop: the emptied levels leave the index and the sweep returns.
FinishStep(u) ==
    [u EXCEPT !.m = FinishSweep(u.m),
              !.pc = IF u.order.order_type = "Market" THEN "return" ELSE "rest"]

\* The remainder of a limit order goes to placement.
RestStep(u) == [u EXCEPT !.m = RestRemainder(u.m, u.order), !.pc = "return"]

InCall == UNCHANGED <<book, balances, overflow_checks, panicked, wrapped, deposited, calls, last>>

Call == unit.pc = "call" /\ unit' = EnterCall(unit) /\ InCall
Walk == unit.pc = "walk" /\ unit' = WalkStep(unit) /\ InCall
Drain == unit.pc = "drain" /\ unit' = DrainStep(unit) /\ InCall
Finish == unit.pc = "finish" /\ unit' = FinishStep(unit) /\ InCall
Rest == unit.pc = "rest" /\ unit' = RestStep(unit) /\ InCall

\* handle_order returns, or the process panics.
Return ==
    /\ unit.pc = "return"
    /\ OrderReturns(unit.order, unit.m)
    /\ unit' = [unit EXCEPT !.pc = "done"]
    /\ calls' = calls + 1
    /\ UNCHANGED overflow_checks

LoopNext == Call \/ Walk \/ Drain \/ Finish \/ Rest \/ Return

\* The call runs on one thread until it returns: no step of it waits for anything.
LoopSpec == LoopInit /\ [][LoopNext]_vars /\ WF_vars(LoopNext)

\* ------------------------------------------------- observations of a state
RECURSIVE SumSeq(_)
SumSeq(q) == IF q = <<>> THEN 0 ELSE Head(q) + SumSeq(Tail(q))

RECURSIVE Flatten(_)
Flatten(qq) == IF qq = <<>> THEN <<>> ELSE Head(qq) \o Flatten(Tail(qq))

\* Every resting order of the index tks, by ascending price and queue position.
RestingOrders(tks) ==
    Flatten([i \in 1 .. Cardinality(DOMAIN tks) |-> tks[Ascending(DOMAIN tks)[i]].orders])

RestingOf(tks, direction) ==
    SelectSeq(RestingOrders(tks), LAMBDA o : o.order_direction = direction)

\* The collateral a resting order stands for: quantity * tick_id USD for a Bid,
\* quantity OSMO for an Ask.
Collateral(o, c) ==
    IF o.order_direction = "Bid"
    THEN IF c = "USD" THEN o.quantity * o.tick_id ELSE 0
    ELSE IF c = "OSMO" THEN o.quantity ELSE 0

Escrow(tks, c) ==
    SumSeq([i \in 1 .. Len(RestingOrders(tks)) |-> Collateral(RestingOrders(tks)[i], c)])

TotalBalance(bal, c) == SumSeq([a \in Accounts |-> bal[a][c]])

Liquidity(tks, direction) ==
    SumSeq([i \in 1 .. Len(RestingOf(tks, direction)) |-> RestingOf(tks, direction)[i].quantity])

PricesOf(tks, direction) ==
    {RestingOf(tks, direction)[i].tick_id : i \in 1 .. Len(RestingOf(tks, direction))}

Highest(S) == CHOOSE x \in S : \A y \in S : x >= y
Lowest(S) == CHOOSE x \in S : \A y \in S : x <= y

Opposite(direction) == IF direction = "Bid" THEN "Ask" ELSE "Bid"

\* The last operation was a handle_order call that returned (Ok or an error).
Returned == ~panicked /\ last.op = "handle_order"
ReturnedOk == Returned /\ last.result = NoError
\* Every call so far returned and no amount or balance overflowed.
NoOverflow == ~panicked /\ ~wrapped

\* ------------------------------------------ observations of the last call
Min(x, y) == IF x <= y THEN x ELSE y

\* Units taken from resting orders by the last call.
FilledTotal == SumSeq([i \in 1 .. Len(last.fills) |-> last.fills[i].amount])

AllLegsPaid == \A i \in 1 .. Len(last.legs) : last.legs[i].paid

\* Whether price p is at least as good for an aggressor of `direction` priced at P.
FavourableOrEqual(direction, p, P) == IF direction = "Bid" THEN p <= P ELSE p >= P
StrictlyBetter(direction, p, B) == IF direction = "Bid" THEN p < B ELSE p > B
AtOrBeyond(direction, p, B) == IF direction = "Bid" THEN p >= B ELSE p <= B

\* Opposite-side orders resting before the last call at a price the limit price P accepts.
Crossable(o) ==
    SelectSeq(RestingOf(last.pre.ticks, Opposite(o.order_direction)),
              LAMBDA r : FavourableOrEqual(o.order_direction, r.tick_id, o.tick_id))

CrossableQuantity(o) == SumSeq([i \in 1 .. Len(Crossable(o)) |-> Crossable(o)[i].quantity])

\* The end_tick a call hands to its sweep.
Bound(o) ==
    IF o.order_type = "Limit" THEN o.tick_id
    ELSE IF o.order_direction = "Bid" THEN U64_MAX ELSE U64_MIN

\* The cursor of the side the aggressor sweeps.
SweptCursor(o) == IF o.order_direction = "Bid" THEN next_ask_tick ELSE next_bid_tick

IsPrefix(p, q) == Len(p) <= Len(q) /\ SubSeq(q, 1, Len(p)) = p

\* -------------------------------------------------------------------- claims

\* C1: conservation of funds.  In every state left by calls that returned
\* (with Ok or with an error), for each currency the sum of all balances plus
\* the collateral escrowed for the resting orders equals the amount deposited.
\* Stated for the histories without any overflow: it fails even there.
C1_Conservation ==
    NoOverflow =>
        \A c \in Currency : TotalBalance(balances, c) + Escrow(ticks, c) = deposited[c]

\* C2: the price index holds a tick only if that tick's queue holds at least
\* one resting order (a queue with an order is in the index by construction).
C2_IndexIffResting ==
    NoOverflow => \A t \in DOMAIN ticks : Len(ticks[t].orders) >= 1

\* C3: the best-bid cursor is the highest price holding a resting Bid, or
\* u64::MIN when no Bid rests; the best-ask cursor is the lowest price holding
\* a resting Ask, or u64::MAX when no Ask rests.
C3_CursorsTrackBest ==
    NoOverflow =>
        /\ next_bid_tick = IF PricesOf(ticks, "Bid") = {} THEN U64_MIN
                           ELSE Highest(PricesOf(ticks, "Bid"))
        /\ next_ask_tick = IF PricesOf(ticks, "Ask") = {} THEN U64_MAX
                           ELSE Lowest(PricesOf(ticks, "Ask"))

\* C5: an aggressor only ever fills resting orders of the opposite direction.
C5_OppositeSideOnly ==
    Returned /\ NoOverflow =>
        \A i \in 1 .. Len(last.fills) :
            last.fills[i].direction = Opposite(last.order.order_direction)

\* C4: a limit order priced at or beyond the opposite best price first takes
\* the opposite-side liquidity resting at prices favourable or equal to its
\* own, and only the unfilled remainder is queued, at the order's own price.
\* Stated for prices other than the two cursor sentinels.
C4_CrossingLimit ==
    (/\ ReturnedOk /\ NoOverflow
     /\ last.order.order_type = "Limit"
     /\ last.order.tick_id \notin {U64_MIN, U64_MAX}
     /\ Len(Crossable(last.order)) > 0)
    => /\ FilledTotal = Min(last.order.quantity, CrossableQuantity(last.order))
       /\ last.placed <=> last.order.quantity > CrossableQuantity(last.order)
       /\ last.placed =>
            /\ last.quantity = last.order.quantity - CrossableQuantity(last.order)
            /\ ticks[last.order.tick_id].orders[Len(ticks[last.order.tick_id].orders)]
                   = [last.order EXCEPT !.quantity = last.quantity]

\* A market order's owner can pay for every unit the opposite side offers it.
FundedForMarket(o) ==
    IF o.order_direction = "Ask"
    THEN last.pre.bal[o.owner]["OSMO"] >= o.quantity
    ELSE \A p \in PricesOf(last.pre.ticks, "Ask") :
            last.pre.bal[o.owner]["USD"] >= o.quantity * p

\* C6: an unbounded sweep (a market order) of quantity Q by a funded aggressor
\* against opposite-side liquidity L fills exactly min(Q, L) units, every
\* level it drained is out of the index, and the cursor of the swept side is
\* the last level visited.
C6_UnboundedSweep ==
    (/\ ReturnedOk /\ NoOverflow
     /\ last.order.order_type = "Market"
     /\ FundedForMarket(last.order))
    => /\ FilledTotal = Min(last.order.quantity,
                            Liquidity(last.pre.ticks, Opposite(last.order.order_direction)))
       /\ \A i \in 1 .. Len(last.legs) :
             last.legs[i].tick \in DOMAIN ticks => Len(ticks[last.legs[i].tick].orders) > 0
       /\ Len(last.legs) > 0 => SweptCursor(last.order) = last.legs[Len(last.legs)].tick

\* What the aggressor's legs of the last call add up to.
LegUnits == SumSeq([i \in 1 .. Len(last.legs) |-> last.legs[i].filled])
LegValue == SumSeq([i \in 1 .. Len(last.legs) |-> last.legs[i].filled * last.legs[i].tick])

SelfTrade == \E i \in 1 .. Len(last.fills) : last.fills[i].owner = last.order.owner

\* C7: after a successful sweep that filled f_i units at level price p_i, a
\* Bid aggressor holds sum(f_i) more OSMO and sum(f_i * p_i) less USD, an Ask
\* aggressor sum(f_i) less OSMO and sum(f_i * p_i) more USD.  Stated for the
\* calls that are a sweep and nothing else (nothing was queued) and in which
\* the aggressor owns none of the orders it filled.
C7_AggressorSettlement ==
    (ReturnedOk /\ last.swept /\ ~last.placed /\ ~SelfTrade)
    => LET a == last.order.owner
       IN  IF last.order.order_direction = "Bid"
           THEN /\ balances[a]["OSMO"] = last.pre.bal[a]["OSMO"] + LegUnits
                /\ balances[a]["USD"] = last.pre.bal[a]["USD"] - LegValue
           ELSE /\ balances[a]["OSMO"] = last.pre.bal[a]["OSMO"] - LegUnits
                /\ balances[a]["USD"] = last.pre.bal[a]["USD"] + LegValue

C9_AlwaysOk ==
    (/\ Returned /\ NoOverflow
     /\ last.order.order_type = "Market"
     /\ last.order.quantity > Liquidity(last.pre.ticks, Opposite(last.order.order_direction)))
    => /\ last.result = NoError
       /\ ~last.placed
       /\ \A i \in 1 .. Len(RestingOrders(ticks)) : RestingOrders(ticks)[i].order_type = "Limit"

\* C9 amended: no order of type Market is ever in a queue; and a call with a
\* market order that returns, returns Ok when every fill was paid for and
\* InsufficientFunds otherwise, whatever liquidity was available; it queues
\* nothing, the unfilled remainder is dropped.
C9_MarketRemainderDropped ==
    /\ \A i \in 1 .. Len(RestingOrders(ticks)) : RestingOrders(ticks)[i].order_type = "Limit"
    /\ (Returned /\ last.order.order_type = "Market")
       => /\ last.result = IF AllLegsPaid THEN NoError ELSE InsufficientFunds
          /\ ~last.placed
          /\ Len(RestingOrders(ticks)) <= Len(RestingOrders(last.pre.ticks))

\* C9 witness: a market order took all the liquidity there was, has quantity
\* left, and returned Ok.
C9_Witness ==
    /\ Returned
    /\ last.order.order_type = "Market"
    /\ Len(last.fills) > 0
    /\ last.order.quantity > Liquidity(last.pre.ticks, Opposite(last.order.order_direction))
    /\ last.remaining > 0
    /\ last.result = NoError

CollateralCurrency(o) == IF o.order_direction = "Bid" THEN "USD" ELSE "OSMO"

\* C10: a limit order that goes straight to placement is queued only with its
\* full collateral (quantity * tick_id of USD for a Bid, quantity of OSMO for
\* an Ask) withdrawn from its owner; when the owner's balance does not cover
\* the collateral the call returns InsufficientFunds and queues nothing.
C10_EscrowAtPlacement ==
    (Returned /\ last.order.order_type = "Limit" /\ ~last.swept)
    => LET o == last.order
           c == CollateralCurrency(o)
       IN  /\ last.placed =>
                balances[o.owner][c] = last.pre.bal[o.owner][c] - Collateral(o, c)
           /\ last.pre.bal[o.owner][c] < Collateral(o, c) =>
                /\ last.result = InsufficientFunds
                /\ ~last.placed
                /\ RestingOrders(ticks) = RestingOrders(last.pre.ticks)

\* ------------------------------------------------ settlement of a sweep
Congruent(x, y) == (x - y) % Modulus = 0

\* What the fills of the last call owe account a as owner of filled resting
\* orders, each fill valued at the tick the filled order rested at.
PassiveCredit(a, c) ==
    SumSeq([i \in 1 .. Len(last.fills) |->
        IF last.fills[i].owner # a THEN 0
        ELSE IF last.fills[i].direction = "Ask"
             THEN (IF c = "USD" THEN last.fills[i].amount * last.fills[i].tick ELSE 0)
             ELSE (IF c = "OSMO" THEN last.fills[i].amount ELSE 0)])

FillUnits == SumSeq([i \in 1 .. Len(last.fills) |-> last.fills[i].amount])
FillValue == SumSeq([i \in 1 .. Len(last.fills) |-> last.fills[i].amount * last.fills[i].tick])

\* What the last call moves on the aggressor's account, fills valued at the
\* resting orders' ticks, plus the collateral of a queued remainder.
AggressorDelta(o, c) ==
    (IF o.order_direction = "Bid"
     THEN (IF c = "USD" THEN 0 - FillValue ELSE FillUnits)
     ELSE (IF c = "USD" THEN FillValue ELSE 0 - FillUnits))
    - (IF last.placed THEN Collateral([o EXCEPT !.quantity = last.quantity], c) ELSE 0)

PaidUnits == SumSeq([i \in 1 .. Len(last.legs) |->
                 IF last.legs[i].paid THEN last.legs[i].filled ELSE 0])
PaidValue == SumSeq([i \in 1 .. Len(last.legs) |->
                 IF last.legs[i].paid THEN last.legs[i].filled * last.legs[i].tick ELSE 0])

PaidDelta(o, c) ==
    IF o.order_direction = "Bid"
    THEN (IF c = "USD" THEN 0 - PaidValue ELSE PaidUnits)
    ELSE (IF c = "USD" THEN PaidValue ELSE 0 - PaidUnits)

\* C12: when a sweep aborts with InsufficientFunds at some level, the call
\* returns that error and the earlier levels are not rolled back: a level
\* drained before the abort is no longer in the index, the owners of the
\* filled orders keep their credits and the aggressor keeps what it
\* exchanged at the levels it paid for.
C12_PartialSweepFailure ==
    (Returned /\ NoOverflow /\ last.swept /\ ~AllLegsPaid)
    => /\ last.result = InsufficientFunds
       /\ \A i \in 1 .. Len(last.legs) :
             (last.legs[i].paid /\ last.legs[i].tick \in DOMAIN ticks)
                 => Len(ticks[last.legs[i].tick].orders) > 0
       /\ \A a \in Accounts, c \in Currency :
             balances[a][c] = last.pre.bal[a][c] + PassiveCredit(a, c)
                              + (IF a = last.order.owner THEN PaidDelta(last.order, c) ELSE 0)

\* C13: on every account, after any sequence of deposit and withdraw calls,
\* the balance of a currency is the sum of the amounts deposited less the sum
\* of the amounts withdrawn with success, and 0 if nothing was ever deposited.
C13_LedgerConservation ==
    ~panicked =>
        \A a \in Accounts, c \in Currency :
            /\ balance(balances, a, c) = unit.deposits[a][c] - unit.withdrawals[a][c]
            /\ unit.deposits[a][c] = 0 => balance(balances, a, c) = 0

\* C14: withdraw fails with InsufficientFunds exactly when the balance is
\* below the amount; a failed call changes no balance, a successful one
\* lowers the balance of that currency by the amount and changes no other.
C14_WithdrawExact ==
    last.op = "withdraw" =>
        LET a == last.order.owner
            c == last.currency
            amount == last.order.quantity
        IN  /\ last.result \in {NoError, InsufficientFunds}
            /\ last.result = InsufficientFunds <=> last.pre.bal[a][c] < amount
            /\ last.result = InsufficientFunds => balances = last.pre.bal
            /\ last.result = NoError =>
                  balances = [last.pre.bal EXCEPT ![a][c] = @ - amount]

\* C14 witness: a withdrawal of a whole, non-zero balance succeeded and left 0.
C14_Witness ==
    /\ last.op = "withdraw"
    /\ last.result = NoError
    /\ last.order.quantity > 0
    /\ last.pre.bal[last.order.owner][last.currency] = last.order.quantity
    /\ balances[last.order.owner][last.currency] = 0

Max(x, y) == IF x >= y THEN x ELSE y

\* C15: fill_order(fill_quantity) on an order holding quantity_before returns
\* max(0, fill_quantity - quantity_before) and leaves quantity_before less
\* what it took, never below 0; an exhausted order returns the whole input
\* and stays at 0.  Nothing else of the order changes.
C15_FillArithmetic ==
    (last.op = "fill_order" /\ ~panicked)
    => LET quantity_before == last.order.quantity
           fill_quantity == last.quantity
           remainder == last.remaining
       IN  /\ remainder = Max(0, fill_quantity - quantity_before)
           /\ unit.order.quantity = quantity_before - (fill_quantity - remainder)
           /\ unit.order.quantity >= 0
           /\ quantity_before = 0 => (remainder = fill_quantity /\ unit.order.quantity = 0)
           /\ unit.order = [last.order EXCEPT !.quantity = unit.order.quantity]

\* C15 witness: a fill offered to an exhausted order came back whole.
C15_Witness ==
    /\ last.op = "fill_order" /\ ~panicked
    /\ last.order.quantity = 0
    /\ last.quantity > 0
    /\ last.remaining = last.quantity
    /\ unit.initial > 0

\* C16: after any sequence of fill_order calls on an order of initial
\* quantity Q0 at tick p, whose owner started with nothing, the owner holds
\* (Q0 - quantity) OSMO if the order is a Bid and (Q0 - quantity) * p USD if
\* it is an Ask, and nothing of the other currency.
C16_CumulativeCredit ==
    ~panicked =>
        LET o == unit.order
            taken == unit.initial - o.quantity
        IN  /\ balances[o.owner]["OSMO"] = IF o.order_direction = "Bid" THEN taken ELSE 0
            /\ balances[o.owner]["USD"] =
                   IF o.order_direction = "Ask" THEN taken * o.tick_id ELSE 0

\* The queue of the level under test before and after the last call.
QueueBefore == last.pre.ticks[TheTick].orders
QueueAfter == ticks[TheTick].orders

UniformQueue(orders) == \A i \in 1 .. Len(orders) : orders[i].quantity = orders[1].quantity

\* What fill_tick(k) must leave of a queue of equal orders.
DrainedQueue(orders, k) ==
    LET N == Len(orders)
        Q == orders[1].quantity
        gone == k \div Q
    IN  IF k >= N * Q THEN <<>>
        ELSE IF k % Q = 0 THEN SubSeq(orders, gone + 1, N)
        ELSE <<[orders[gone + 1] EXCEPT !.quantity = Q - (k % Q)]>>
             \o SubSeq(orders, gone + 2, N)

\* C17: on a level holding N orders of equal quantity Q, fill_tick(k) removes
\* floor(k / Q) orders from the head (all N when k >= N * Q), leaves the next
\* order with Q - (k mod Q) when k is no multiple of Q and k < N * Q, leaves
\* the later orders untouched, and returns max(0, k - N * Q).
C17_FifoDraining ==
    (last.op = "fill_tick" /\ ~panicked /\ UniformQueue(QueueBefore))
    => IF Len(QueueBefore) = 0
       THEN QueueAfter = <<>> /\ last.remaining = last.quantity
       ELSE /\ QueueAfter = DrainedQueue(QueueBefore, last.quantity)
            /\ last.remaining =
                   Max(0, last.quantity - Len(QueueBefore) * QueueBefore[1].quantity)

\* C17 witness: a fill took more than one whole order and part of the next,
\* with an order left behind it.
C17_Witness ==
    /\ last.op = "fill_tick" /\ ~panicked /\ UniformQueue(QueueBefore)
    /\ Len(QueueBefore) = 3
    /\ QueueBefore[1].quantity = 2
    /\ last.quantity = 3
    /\ Len(QueueAfter) = 2
    /\ QueueAfter[1].quantity = 1

\* C18: place_limit with an order that is not a Limit order returns
\* InvalidOrderType and leaves the queue as it was; with a Limit order it
\* returns Ok and appends the order at the tail, the queued orders staying in
\* their positions.
C18_TypeGuard ==
    last.op = "place_limit"
    => IF last.order.order_type # "Limit"
       THEN last.result = InvalidOrderType /\ ticks = last.pre.ticks
       ELSE /\ last.result = NoError
            /\ ticks = [last.pre.ticks EXCEPT ![TheTick].orders = Append(@, last.order)]

\* C18 witness: a Market order was refused by a level that holds orders.
C18_Witness ==
    /\ last.op = "place_limit"
    /\ last.order.order_type = "Market"
    /\ last.result = InvalidOrderType
    /\ Len(QueueAfter) > 0

\* C19: after any sequence of deposit, withdraw and handle_order calls every
\* balance of every account is at least 0 (and a u64): no withdrawal, by a
\* caller or by a settlement step, takes more than the balance holds.
C19_NoNegativeBalance ==
    \A a \in Accounts, c \in Currency : balances[a][c] \in 0 .. U64_MAX

\* C19 witness: a settlement step asked an aggressor for more than it held
\* and was refused.
C19_Witness ==
    /\ Returned
    /\ last.result = InsufficientFunds
    /\ \E i \in 1 .. Len(last.legs) :
          /\ ~last.legs[i].paid
          /\ last.legs[i].filled * last.legs[i].tick
                 > last.pre.bal[last.order.owner]["USD"]
    /\ last.order.order_direction = "Bid"

\* C20: in every state each level's total_orders equals the sum of the
\* quantities of the orders in its queue.
C20_AggregateCounter ==
    ~panicked =>
        \A t \in DOMAIN ticks :
            ticks[t].total_orders
                = SumSeq([i \in 1 .. Len(ticks[t].orders) |-> ticks[t].orders[i].quantity])

\* Whether the aggressor's withdrawal for level t went through in the last call.
PaidAt(t) == \E j \in 1 .. Len(last.legs) : last.legs[j].tick = t /\ last.legs[j].paid

\* C21: two-sided settlement.  After any handle_order call that returned, Ok
\* or InsufficientFunds, every level at which resting owners were credited
\* for a fill is a level the aggressor was debited for.  Stated for the
\* histories without any overflow: it fails even there.
C21_TwoSidedSettlement ==
    (Returned /\ NoOverflow) =>
        \A i \in 1 .. Len(last.fills) :
            last.fills[i].amount > 0 => PaidAt(last.fills[i].tick)

\* The fills of the last call that took from orders of the side opposite to
\* the aggressor, as positions of last.fills.
OppositeFills ==
    {i \in 1 .. Len(last.fills) :
        /\ last.fills[i].direction = Opposite(last.order.order_direction)
        /\ last.fills[i].amount > 0}

\* C22: price priority.  A Bid aggressor never fills a resting Ask at price p
\* while an Ask of positive quantity rests at a lower price, and an Ask
\* aggressor never fills a resting Bid while a Bid rests at a higher price:
\* the opposite-side fills of a call come in order of price, best first, and
\* no opposite-side order at a price strictly better than a fill's is left
\* in the book by the call.
C22_PricePriority ==
    Returned =>
        \A i \in OppositeFills :
            /\ \A j \in OppositeFills :
                   j < i => ~StrictlyBetter(last.order.order_direction,
                                            last.fills[i].tick, last.fills[j].tick)
            /\ \A k \in 1 .. Len(RestingOf(ticks, Opposite(last.order.order_direction))) :
                   LET r == RestingOf(ticks, Opposite(last.order.order_direction))[k]
                   IN  r.quantity > 0 =>
                          ~StrictlyBetter(last.order.order_direction,
                                          r.tick_id, last.fills[i].tick)

\* A sweep that took from opposite-side orders at two different prices.
C22_Witness ==
    /\ Returned
    /\ \E i, j \in OppositeFills : last.fills[i].tick # last.fills[j].tick

\* The quantity order `id` rests with in the index tks, 0 when it is not queued.
RestingQuantity(tks, id) ==
    SumSeq([i \in 1 .. Len(RestingOrders(tks)) |->
               IF RestingOrders(tks)[i].order_id = id
               THEN RestingOrders(tks)[i].quantity ELSE 0])

\* Whether the last call took anything from the order o that rested before it.
Reduced(o) == RestingQuantity(ticks, o.order_id) < o.quantity

\* C23: time priority.  Orders are numbered in the order handle_order received
\* them.  Every queue holds its orders in that order, and when A was queued
\* before B at the same level, a call that reduces B leaves nothing of A
\* resting: B is never reduced while A still rests with positive quantity.
C23_TimePriority ==
    /\ \A t \in DOMAIN ticks :
          \A i, j \in 1 .. Len(ticks[t].orders) :
              i < j => ticks[t].orders[i].order_id < ticks[t].orders[j].order_id
    /\ Returned =>
          \A t \in DOMAIN last.pre.ticks :
              \A i, j \in 1 .. Len(last.pre.ticks[t].orders) :
                  LET A == last.pre.ticks[t].orders[i]
                      B == last.pre.ticks[t].orders[j]
                  IN  (A.order_id < B.order_id /\ Reduced(B))
                          => RestingQuantity(ticks, A.order_id) = 0

\* A call that emptied the earlier of two orders of a level and took from the later.
C23_Witness ==
    /\ Returned
    /\ \E t \in DOMAIN last.pre.ticks :
          \E i, j \in 1 .. Len(last.pre.ticks[t].orders) :
              /\ last.pre.ticks[t].orders[i].order_id < last.pre.ticks[t].orders[j].order_id
              /\ Reduced(last.pre.ticks[t].orders[j])
              /\ RestingQuantity(ticks, last.pre.ticks[t].orders[j].order_id) > 0

\* C24: a failed placement leaves the state unchanged.  When a limit order
\* that does not cross is refused with InsufficientFunds, the set of ticks
\* in the index, every queue, both cursors and every balance are what they
\* were before the call.
C24_FailedPlacementUnchanged ==
    (/\ Returned
     /\ last.order.order_type = "Limit"
     /\ ~last.swept
     /\ last.result = InsufficientFunds)
    => /\ DOMAIN ticks = DOMAIN last.pre.ticks
       /\ \A t \in DOMAIN ticks : ticks[t].orders = last.pre.ticks[t].orders
       /\ next_bid_tick = last.pre.next_bid_tick
       /\ next_ask_tick = last.pre.next_ask_tick
       /\ balances = last.pre.bal

\* C25: the incoming order's quantity.  After handle_order returned Ok, the
\* caller's order carries the original quantity minus the quantity the sweep
\* filled, 0 for an order filled in full.  Stated for the histories without
\* any overflow: it fails even there.
C25_IncomingQuantity ==
    (ReturnedOk /\ NoOverflow) =>
        last.quantity = last.order.quantity - FilledTotal

\* The values the sweep of the last call can have left in the cursor of the
\* side it swept: its bound, a level it visited, or the value it found.
AfterSweep(o) ==
    {Bound(o)} \cup {last.legs[i].tick : i \in 1 .. Len(last.legs)}
        \cup {IF o.order_direction = "Bid" THEN last.pre.next_ask_tick
                                            ELSE last.pre.next_bid_tick}

\* C26: cursor update on placement.  After a call queued a limit order at
\* price p, the best-bid cursor is max(previous cursor, p) for a Bid and the
\* best-ask cursor is min(previous cursor, p) for an Ask; the cursor of the
\* other side is what it was before the placement (unchanged over the call
\* when the order did not cross, what the sweep left otherwise).
C26_CursorOnPlacement ==
    (Returned /\ last.placed) =>
        /\ last.result = NoError
        /\ IF last.order.order_direction = "Bid"
           THEN /\ next_bid_tick = Max(last.pre.next_bid_tick, last.order.tick_id)
                /\ ~last.swept => next_ask_tick = last.pre.next_ask_tick
                /\ last.swept => next_ask_tick \in AfterSweep(last.order)
           ELSE /\ next_ask_tick = Min(last.pre.next_ask_tick, last.order.tick_id)
                /\ ~last.swept => next_bid_tick = last.pre.next_bid_tick
                /\ last.swept => next_bid_tick \in AfterSweep(last.order)

\* A Bid queued below the best-bid cursor: the cursor stays where it was.
C26_Witness ==
    /\ Returned /\ last.placed
    /\ last.order.order_direction = "Bid"
    /\ last.order.tick_id < last.pre.next_bid_tick
    /\ next_bid_tick = last.pre.next_bid_tick

\* C27: resting quantity only decreases and exhausted orders leave the book.
\* Every order in a queue has quantity > 0; an order that rested before a
\* call rests with at most that quantity after it; and a limit order with
\* nothing left to rest is not queued.
C27_RestingQuantity ==
    /\ \A k \in 1 .. Len(RestingOrders(ticks)) : RestingOrders(ticks)[k].quantity > 0
    /\ Returned =>
          /\ \A k \in 1 .. Len(RestingOrders(last.pre.ticks)) :
                RestingQuantity(ticks, RestingOrders(last.pre.ticks)[k].order_id)
                    <= RestingOrders(last.pre.ticks)[k].quantity
          /\ (last.order.order_type = "Limit" /\ last.remaining = 0) =>
                /\ ~last.placed
                /\ RestingQuantity(ticks, last.order.order_id) = 0
                /\ \A k \in 1 .. Len(RestingOrders(ticks)) :
                      RestingOrders(ticks)[k].order_id # last.order.order_id

\* A crossing limit order that was filled in full and left nothing to queue.
C27_Witness ==
    /\ ReturnedOk
    /\ last.order.order_type = "Limit"
    /\ last.swept /\ FilledTotal > 0 /\ last.remaining = 0
    /\ ~last.placed

\* C28: every resting order can be reached by matching.  Whenever orders of
\* the opposite side rest in the book, whatever their price, a market order
\* of positive quantity from a sufficiently funded owner fills at least one
\* unit of them.
C28_EveryRestingOrderReachable ==
    (/\ Returned
     /\ last.order.order_type = "Market"
     /\ last.order.quantity > 0
     /\ FundedForMarket(last.order)
     /\ Liquidity(last.pre.ticks, Opposite(last.order.order_direction)) > 0)
    => OppositeFills # {}

\* C29: the book is never crossed or mixed.  No queue holds both Bid and Ask
\* orders, and every resting Bid's price is strictly lower than every
\* resting Ask's price.  Stated for the histories without any overflow: it
\* fails even there.
C29_NeverCrossedOrMixed ==
    NoOverflow =>
        /\ \A t \in DOMAIN ticks :
              \A i, j \in 1 .. Len(ticks[t].orders) :
                  ticks[t].orders[i].order_direction = ticks[t].orders[j].order_direction
        /\ \A b \in PricesOf(ticks, "Bid") : \A a \in PricesOf(ticks, "Ask") : b < a

\* What the last call queued as collateral for the remainder of its order.
RemainderEscrow(c) ==
    IF last.placed THEN Collateral([last.order EXCEPT !.quantity = last.quantity], c) ELSE 0

\* What the last call added to account a's balance in currency c.
Gain(a, c) == balances[a][c] - last.pre.bal[a][c]

C31_MarketNoOp ==
    (/\ Returned /\ NoOverflow
     /\ last.order.order_type = "Market"
     /\ Liquidity(last.pre.ticks, Opposite(last.order.order_direction)) = 0)
    => /\ last.result = NoError
       /\ balances = last.pre.bal
       /\ DOMAIN ticks = DOMAIN last.pre.ticks
       /\ \A t \in DOMAIN ticks : ticks[t].orders = last.pre.ticks[t].orders

\* The queue of level t in the index tks, empty when the level is not there.
QueueAt(tks, t) == IF t \in DOMAIN tks THEN tks[t].orders ELSE <<>>

\* C32: frame of a non-crossing placement.  A handle_order call that returned
\* Ok for a limit order that did not cross changes only the owner's balance
\* in the collateral currency, the queue of the level at the order's price,
\* which gains the order at its tail, and the cursor of the order's side:
\* every other account, the owner's other balance, every other level, the
\* orders already resting and the other cursor are unchanged.
C32_PlacementFrame ==
    (ReturnedOk /\ last.order.order_type = "Limit" /\ ~last.swept) =>
        /\ \A a \in Accounts, c \in Currency :
              (a # last.order.owner \/ c # CollateralCurrency(last.order))
                  => balances[a][c] = last.pre.bal[a][c]
        /\ DOMAIN last.pre.ticks \subseteq DOMAIN ticks
        /\ DOMAIN ticks \subseteq DOMAIN last.pre.ticks \cup {last.order.tick_id}
        /\ \A t \in DOMAIN last.pre.ticks \ {last.order.tick_id} :
              ticks[t] = last.pre.ticks[t]
        /\ QueueAt(ticks, last.order.tick_id)
              = IF last.placed
                THEN Append(QueueAt(last.pre.ticks, last.order.tick_id), last.order)
                ELSE QueueAt(last.pre.ticks, last.order.tick_id)
        /\ IF last.order.order_direction = "Bid"
           THEN /\ next_ask_tick = last.pre.next_ask_tick
                /\ next_bid_tick \in {last.pre.next_bid_tick, last.order.tick_id}
           ELSE /\ next_bid_tick = last.pre.next_bid_tick
                /\ next_ask_tick \in {last.pre.next_ask_tick, last.order.tick_id}

\* An order queued behind another one, with a second level in the book.
C32_Witness ==
    /\ ReturnedOk /\ last.order.order_type = "Limit" /\ ~last.swept /\ last.placed
    /\ Len(QueueAt(last.pre.ticks, last.order.tick_id)) > 0
    /\ \E t \in DOMAIN last.pre.ticks \ {last.order.tick_id} :
          Len(last.pre.ticks[t].orders) > 0
    /\ balances[last.order.owner][CollateralCurrency(last.order)]
          < last.pre.bal[last.order.owner][CollateralCurrency(last.order)]

\* The call has returned or the process has panicked.
Done == unit.pc = "done"

\* Each iteration of fill_tick's loop exhausts the incoming quantity or
\* removes the front order.
DrainProgress ==
    (unit.pc = "drain" /\ unit'.pc = "drain")
        => \/ unit'.remaining = 0
           \/ Len(unit'.orders) = Len(unit.orders) - 1

\* Each iteration of the sweep loop enters a level not visited before, or stops.
SweepProgress ==
    unit.pc = "walk"
        => \/ unit'.pc = "finish"
           \/ /\ unit'.pc = "drain"
              /\ \A i \in 1 .. Len(unit.visited) : unit.visited[i] # unit'.level
              /\ Len(unit'.keys) = Len(unit.keys) - 1

\* The call run step by step returns what handle_order computes in one go.
StepwiseAgrees ==
    unit.pc = "return" =>
        IF overflow_checks /\ unit.m.ovf
        THEN handle_order(MachineState(unit.order), unit.order).ovf
        ELSE unit.m = handle_order(MachineState(unit.order), unit.order)

\* C33: termination.  Every fill_tick call and every handle_order call
\* terminates, for any book and any order: each iteration of the drain loop
\* exhausts the incoming quantity or removes the head order, each iteration
\* of the sweep loop advances to a level not visited before or stops, and
\* the call comes to its end.
C33_Termination ==
    /\ [][DrainProgress /\ SweepProgress]_vars
    /\ <>Done
    /\ []StepwiseAgrees

\* A call that came to its end after two levels, one of them drained in two
\* iterations.
C33_Witness ==
    /\ Done
    /\ Len(unit.visited) = 2
    /\ Len(unit.m.fills) >= 3

\* C34: no counter underflow in a sweep.  Whenever a sweep executes
\* total_orders -= filled_quantity on a level, the level's counter is at
\* least filled_quantity beforehand.  Stated on the calls that returned (a
\* build without overflow checks wraps the subtraction and goes on; with
\* checks the call panics there).  A call visits a level at most once, so
\* the counter beforehand is the one the call found.
C34_NoCounterUnderflow ==
    Returned =>
        \A i \in 1 .. Len(last.legs) :
            last.legs[i].filled <= last.pre.ticks[last.legs[i].tick].total_orders

=============================================================================
